---- MODULE Spec2Model ----
(***************************************************************************)
(* Model of Preprocessing/preprocessing_battery_data_csv.py:               *)
(*   extract_stats   - avg/min/max of one sensor channel                   *)
(*   process_battery - one decoded .mat file -> paired per-cycle rows      *)
(*   main            - batch loop, concatenation, RUL labelling, CSV       *)
(***************************************************************************)
EXTENDS Integers, Sequences, FiniteSets, TLC

VARIABLES
    pc,        \* position of the running call
    data,      \* extract_stats: the array argument
    prefix,    \* extract_stats: the prefix argument
    features,  \* extract_stats: the returned dict
    path,      \* process_battery: mat_path
    mat,       \* process_battery: what scipy.io.loadmat(mat_path) returned
    df,        \* process_battery: the outcome of the call
    files,     \* main: the files os.walk discovers, in discovery order
    idx,       \* main: number of discovered files already handled
    all_dfs,   \* main: the list all_dfs
    final_df,  \* main: the rows of final_df
    labeled,   \* main: number of times the RUL column was assigned
    out        \* main: the rows written to battery_cycles_summary.csv

vars == <<pc, data, prefix, features, path, mat, df,
          files, idx, all_dfs, final_df, labeled, out>>

(***************************************************************************)
(* Bounds of the model.                                                    *)
(***************************************************************************)
MaxLen == 3        \* longest sample array given to extract_stats
MaxCycles == 4     \* longest generated cycle list of one file
MaxFiles == 2      \* most files one walk discovers

(***************************************************************************)
(* float64.  A positive normal double is [hi, lo, e] and stands for        *)
(* (hi * 2^27 + lo) * 2^e with 2^52 <= hi * 2^27 + lo < 2^53.  Arithmetic  *)
(* rounds to nearest, ties to even, as the hardware does.  NaN is the      *)
(* missing-value marker np.nan.                                            *)
(***************************************************************************)
Limb == 2^27
MinHi == 2^25
NaN == [nan |-> TRUE]

IsNaN(x) == "nan" \in DOMAIN x

F01 == [hi |-> 53687091, lo |-> 26843546, e |-> -56]   \* 0.1
F02 == [hi |-> 53687091, lo |-> 26843546, e |-> -55]   \* 0.2
F03 == [hi |-> 40265318, lo |-> 53687091, e |-> -54]   \* 0.3
F07 == [hi |-> 46976204, lo |-> 107374182, e |-> -53]  \* 0.7
F10 == [hi |-> 33554432, lo |-> 0, e |-> -52]          \* 1.0

\* a <= b on doubles
FLe(a, b) ==
    \/ a.e < b.e
    \/ a.e = b.e /\ a.hi < b.hi
    \/ a.e = b.e /\ a.hi = b.hi /\ a.lo <= b.lo

\* a two-limb integer shifted right by k >= 1 bits; sticky tells whether a
\* one was shifted out
ShiftRight(y, k) ==
    IF k >= 54 THEN [hi |-> 0, lo |-> 0, sticky |-> TRUE]
    ELSE IF k >= 27 THEN
        [hi |-> 0,
         lo |-> y.hi \div 2^(k - 27),
         sticky |-> (y.hi % 2^(k - 27) # 0) \/ (y.lo # 0)]
    ELSE
        [hi |-> y.hi \div 2^k,
         lo |-> (y.hi % 2^k) * 2^(27 - k) + y.lo \div 2^k,
         sticky |-> y.lo % 2^k # 0]

\* a two-limb integer shifted left by k bits
ShiftLeft(y, k) ==
    [hi |-> y.hi * 2^k + (y.lo * 2^k) \div Limb,
     lo |-> (y.lo * 2^k) % Limb,
     sticky |-> FALSE]

\* the sum of two two-limb integers
LimbAdd(X, Y) ==
    [hi |-> X.hi + Y.hi + (X.lo + Y.lo) \div Limb, lo |-> (X.lo + Y.lo) % Limb]

\* round to nearest, ties to even: the quotient q at exponent e, r the bits
\* cut off below it, half their midpoint, sticky whether ones lie below r
FRound(q, r, half, sticky, e) ==
    LET up == (r > half) \/ (r = half /\ (sticky \/ q.lo % 2 = 1))
        lo1 == IF up THEN q.lo + 1 ELSE q.lo
    IN  IF q.hi + lo1 \div Limb >= 2 * MinHi
        THEN [hi |-> MinHi, lo |-> 0, e |-> e + 1]
        ELSE [hi |-> q.hi + lo1 \div Limb, lo |-> lo1 % Limb, e |-> e]

\* S (55 or 56 bits, exponent e) cut to 53 bits by dropping its k low bits
FCut(S, k, sticky, e) ==
    FRound(ShiftRight(S, k), S.lo % 2^k, 2^(k - 1), sticky, e + k)

\* X + Y at exponent e, X holding the larger operand with two guard bits
FAddAligned(X, Y, e) ==
    FCut(LimbAdd(X, Y), IF LimbAdd(X, Y).hi >= 8 * MinHi THEN 3 ELSE 2,
         Y.sticky, e)

\* x + y for x >= y: y is aligned to the exponent of x
FAddOrdered(x, y) ==
    FAddAligned(ShiftLeft(x, 2),
                IF x.e - y.e <= 2 THEN ShiftLeft(y, 2 - (x.e - y.e))
                ELSE ShiftRight(y, x.e - y.e - 2),
                x.e - 2)

\* a + b on doubles, correctly rounded
FAdd(a, b) ==
    IF FLe(b, a) THEN FAddOrdered(a, b) ELSE FAddOrdered(b, a)

\* the quotient Q (54 bits, exponent e - 1) and remainder rem of a division,
\* rounded to 53 bits
FDivRound(Q, rem, e) ==
    FRound(ShiftRight(Q, 1), Q.lo % 2, 1, rem # 0, e)

\* one step of long division by n over a 9-bit chunk c of the dividend: the
\* state holds the quotient so far (hi, lo), the remainder rem and the
\* count t of fraction bits
DivChunk(s, c, n) ==
    [hi |-> s.hi,
     lo |-> s.lo * 2^9 + (s.rem * 2^9 + c) \div n,
     rem |-> (s.rem * 2^9 + c) % n,
     t |-> s.t]

\* the integer quotient and remainder of the mantissa of x by n
LongDiv(x, n) ==
    DivChunk(DivChunk(DivChunk([hi |-> x.hi \div n, lo |-> 0,
                                rem |-> x.hi % n, t |-> 0],
                               x.lo \div 2^18, n),
                      (x.lo \div 2^9) % 2^9, n),
             x.lo % 2^9, n)

\* one more quotient bit b below the binary point
DivBit(s, n, b) ==
    [hi |-> 2 * s.hi + (2 * s.lo + b) \div Limb,
     lo |-> (2 * s.lo + b) % Limb,
     rem |-> 2 * s.rem - b * n,
     t |-> s.t + 1]

\* quotient bits are added until the quotient has 54 bits
RECURSIVE DivExtend(_, _)
DivExtend(s, n) ==
    IF s.hi >= 2 * MinHi THEN s
    ELSE DivExtend(DivBit(s, n, IF 2 * s.rem >= n THEN 1 ELSE 0), n)

FDivExtended(s, e) == FDivRound(s, s.rem, e - s.t + 1)

\* x / n on doubles for an integer 1 <= n < 2^20, correctly rounded
FDivInt(x, n) == FDivExtended(DivExtend(LongDiv(x, n), n), x.e)

(***************************************************************************)
(* numpy reductions.  A reduction either returns a double (or NaN) or      *)
(* raises; a raise is the record [raise |-> <exception name>].             *)
(***************************************************************************)
Raise(exc) == [raise |-> exc]
Raised(v) == "raise" \in DOMAIN v

\* numpy's pairwise summation hands arrays longer than this to two halves
PW_BLOCKSIZE == 128

\* for (; i < n; i++) res += a[i], over the elements from..to of a
RECURSIVE add_rest(_, _, _, _)
add_rest(res, a, from, to) ==
    IF to < from THEN res
    ELSE FAdd(add_rest(res, a, from, to - 1), a[to])

\* accumulator j of the unrolled loop: a[j] + a[j + 8] + a[j + 16] + ...
\* over the first `blocks` blocks of 8 elements
RECURSIVE block_acc(_, _, _)
block_acc(a, j, blocks) ==
    IF blocks = 1 THEN a[j]
    ELSE FAdd(block_acc(a, j, blocks - 1), a[j + 8 * (blocks - 1)])

\* ((r0 + r1) + (r2 + r3)) + ((r4 + r5) + (r6 + r7))
combine(r) ==
    FAdd(FAdd(FAdd(r[1], r[2]), FAdd(r[3], r[4])),
         FAdd(FAdd(r[5], r[6]), FAdd(r[7], r[8])))

\* the two halves of a long array: n2 = n / 2, n2 -= n2 % 8
split(a, n2) == <<SubSeq(a, 1, n2), SubSeq(a, n2 + 1, Len(a))>>

add_halves(sums) == FAdd(sums[1], sums[2])

\* numpy's pairwise summation: fewer than 8 elements are added one by one in
\* index order (0 + a[1] is exact); up to PW_BLOCKSIZE elements go through 8
\* accumulators, combined as a tree, then the remaining n % 8 elements; a
\* longer array is the sum of its two halves
RECURSIVE pairwise_sum(_)
pairwise_sum(a) ==
    IF Len(a) < 8 THEN add_rest(a[1], a, 2, Len(a))
    ELSE IF Len(a) <= PW_BLOCKSIZE
    THEN add_rest(combine([j \in 1..8 |-> block_acc(a, j, Len(a) \div 8)]),
                  a, Len(a) - (Len(a) % 8) + 1, Len(a))
    ELSE add_halves([h \in 1..2 |->
             pairwise_sum(split(a, (Len(a) \div 2)
                                     - ((Len(a) \div 2) % 8))[h])])

\* np.add.reduce: the identity 0 plus the pairwise sum of all elements;
\* adding 0 is exact
np_sum(a) == pairwise_sum(a)

\* np.mean: the sum over the count; 0/0 = nan for an empty array
np_mean(a) ==
    IF Len(a) = 0 THEN NaN ELSE FDivInt(np_sum(a), Len(a))

\* a reduction that takes the first element for the least
np_min_bug(a) ==
    IF Len(a) = 0 THEN Raise("ValueError") ELSE a[1]

\* np.min: raises ValueError on an empty array
np_min(a) ==
    IF Len(a) = 0 THEN Raise("ValueError")
    ELSE CHOOSE m \in {a[i] : i \in 1..Len(a)} :
             \A i \in 1..Len(a) : FLe(m, a[i])

\* np.max: raises ValueError on an empty array
np_max(a) ==
    IF Len(a) = 0 THEN Raise("ValueError")
    ELSE CHOOSE m \in {a[i] : i \in 1..Len(a)} :
             \A i \in 1..Len(a) : FLe(a[i], m)

\* STAT_FUNCS, in insertion order
STAT_FUNCS == <<"avg", "min", "max">>

ApplyStat(stat_name, a) ==
    CASE stat_name = "avg" -> np_mean(a)
      [] stat_name = "min" -> np_min(a)
      [] stat_name = "max" -> np_max(a)

\* try: func(data) / except Exception: np.nan
NaNIfRaised(v) == IF Raised(v) THEN NaN ELSE v

\* one pass of the loop body of extract_stats
StatValue(stat_name, a) == NaNIfRaised(ApplyStat(stat_name, a))

\* extract_stats(data, prefix): the dict {prefix_stat: value}
extract_stats(a, pre) ==
    [key \in {pre \o "_" \o STAT_FUNCS[i] : i \in 1..Len(STAT_FUNCS)} |->
        LET i == CHOOSE j \in 1..Len(STAT_FUNCS) :
                     key = pre \o "_" \o STAT_FUNCS[j]
        IN  StatValue(STAT_FUNCS[i], a)]

(***************************************************************************)
(* Inputs of extract_stats.                                                *)
(***************************************************************************)
Samples == {F01, F02, F03}

RECURSIVE SeqsUpTo(_, _)
SeqsUpTo(S, n) ==
    IF n = 0 THEN {<<>>}
    ELSE LET shorter == SeqsUpTo(S, n - 1)
         IN  shorter \cup {Append(s, x) : s \in {t \in shorter : Len(t) = n - 1},
                                          x \in S}

\* a channel of n equal samples
Repeat(x, n) == [i \in 1..n |-> x]

\* channels long enough for the accumulators of the summation (8, 9, 10, 17
\* samples) and for its halving (130 samples)
LongArrays ==
    {Repeat(x, n) : x \in {F01, F07}, n \in {8, 9, 10, 17, 130}}
      \cup {<<F01, F02, F03, F01, F02, F03, F01, F02, F03>>}

Arrays == SeqsUpTo(Samples, MaxLen) \cup LongArrays

Prefixes == {"charge_voltage", "charge_current", "charge_temp",
             "discharge_voltage", "discharge_current", "discharge_temp"}

(***************************************************************************)
(* What scipy.io.loadmat returns.  A MATLAB array is [rows, vals]: rows is *)
(* the size of its first axis (0 for the 0x0 array [], 1 for a row vector) *)
(* and vals the elements of its first row.  A struct is a function from    *)
(* its field names (dtype.names) to arrays.  A cycle entry is [type, data]:*)
(* type the 1-D array of labels (empty when the label is unset), data the  *)
(* struct of channels.                                                     *)
(***************************************************************************)
Row(vals) == [rows |-> 1, vals |-> vals]
Empty00 == [rows |-> 0, vals |-> <<>>]

Ok(v) == [val |-> v]

\* struct[name][0]: ValueError when the struct has no such field,
\* IndexError when the array has no first row
FieldRow(struct, name) ==
    IF name \notin DOMAIN struct THEN Raise("ValueError")
    ELSE IF struct[name].rows = 0 THEN Raise("IndexError")
    ELSE Ok(struct[name].vals)

\* {**a, **b}: the keys of b override those of a
DictMerge(a, b) == b @@ a

\* row[0] taken where row[-1] is meant
LastOfBug(row) ==
    IF Raised(row) THEN row
    ELSE IF Len(row.val) > 0 THEN Ok(row.val[1])
    ELSE Ok(NaN)

\* row[-1] of a channel row, np.nan when it is empty
LastOf(row) ==
    IF Raised(row) THEN row
    ELSE IF Len(row.val) > 0 THEN Ok(row.val[Len(row.val)])
    ELSE Ok(NaN)

\* "name" in data.dtype.names and len(data[name][0]) > 0, then
\* data[name][0][-1], else np.nan
LastOrNaN(d, name) ==
    IF name \notin DOMAIN d THEN Ok(NaN) ELSE LastOf(FieldRow(d, name))

\* the extra labels of a discharge entry
DischargeLabels(stats, dur, cap) ==
    IF Raised(dur) THEN dur
    ELSE IF Raised(cap) THEN cap
    ELSE DictMerge(DictMerge(stats, "discharge_duration_s" :> dur.val),
                   "capacity_Ah" :> cap.val)

\* the labels only a discharge entry gets
WithLabels(ctype, d, stats) ==
    IF ctype = "discharge"
    THEN DischargeLabels(stats, LastOrNaN(d, "Time"), LastOrNaN(d, "Capacity"))
    ELSE stats

\* the feature dict of an entry whose three channel rows were read
FeaturesOf(ctype, d, voltage, current, temp) ==
    IF Raised(voltage) THEN voltage
    ELSE IF Raised(current) THEN current
    ELSE IF Raised(temp) THEN temp
    ELSE WithLabels(ctype, d,
           DictMerge(DictMerge(extract_stats(voltage.val, ctype \o "_voltage"),
                               extract_stats(current.val, ctype \o "_current")),
                     extract_stats(temp.val, ctype \o "_temp")))

\* the body of the loop for one charge or discharge entry: its feature dict,
\* or the exception that leaves process_battery
EntryFeatures(ctype, d) ==
    FeaturesOf(ctype, d, FieldRow(d, "Voltage_measured"),
               FieldRow(d, "Current_measured"),
               FieldRow(d, "Temperature_measured"))

\* rows_discharge.append(features) or rows_charge.append(features)
AppendRow(acc, ctype, f) ==
    IF Raised(f) THEN f
    ELSE IF ctype = "discharge"
    THEN [acc EXCEPT !.rows_discharge = Append(@, f)]
    ELSE [acc EXCEPT !.rows_charge = Append(@, f)]

\* one pass of the loop over the cycle list: acc holds the two row lists
\* built so far, or the exception already raised
LoopBody(acc, cycle) ==
    IF Raised(acc) THEN acc
    ELSE IF Len(cycle.type) = 0 THEN Raise("IndexError")
    ELSE IF cycle.type[1] \notin {"charge", "discharge"} THEN acc
    ELSE AppendRow(acc, cycle.type[1],
                   EntryFeatures(cycle.type[1], cycle.data))

\* the loop over the first n entries of the cycle list, in file order
RECURSIVE CollectRows(_, _)
CollectRows(cycles, n) ==
    IF n = 0 THEN [rows_charge |-> <<>>, rows_discharge |-> <<>>]
    ELSE LoopBody(CollectRows(cycles, n - 1), cycles[n])

Min(a, b) == IF a <= b THEN a ELSE b

\* "cycle": idx + 1
PairCycle(k) == k + 1

\* the pairing: n_pairs merged rows, an empty DataFrame when there is none
PairRows(battery_name, rows_charge, rows_discharge) ==
    LET n_pairs == Min(Len(rows_charge), Len(rows_discharge))
    IN  [rows |->
           [k \in 1..n_pairs |->
              DictMerge(DictMerge(("battery" :> battery_name)
                                    @@ ("cycle" :> PairCycle(k - 1)),
                                  rows_charge[k]),
                        rows_discharge[k])]]

\* os.path.basename(mat_path).split(".")[0]; a path is [dir, name] and name
\* the file name cut at its dots
BatteryName(p) == p.name[1]

\* k.startswith(pre)
startswith(k, pre) == Len(k) >= Len(pre) /\ SubSeq(k, 1, Len(pre)) = pre

\* Python's None, distinct from every key: a key k is held as Ok(k)
None == [none |-> TRUE]

\* next((k for k in mat.keys() if not k.startswith("__")), None)
MainKey(m) ==
    LET free == {i \in 1..Len(m.keys) : ~startswith(m.keys[i], "__")}
    IN  IF free = {} THEN None
        ELSE Ok(m.keys[CHOOSE i \in free : \A j \in free : i <= j])

EmptyDF == [rows |-> <<>>]

\* lines 83-100: pair what the loop collected
PairCollected(battery_name, got) ==
    IF Raised(got) THEN got
    ELSE PairRows(battery_name, got.rows_charge, got.rows_discharge)

\* lines 48-100: cycles is mat[main_key][0, 0]["cycle"][0]
ProcessCycles(battery_name, cycles) ==
    IF Raised(cycles) THEN cycles
    ELSE PairCollected(battery_name, CollectRows(cycles.val, Len(cycles.val)))

\* a loaded variable is a 2-D array: a 1x1 struct array holding one record
\* of fields, a 1x1 numeric array, or the 0x0 array
StructArray(f) == [rows |-> 1, elem |-> [fields |-> f]]
NumericArray(x) == [rows |-> 1, elem |-> [number |-> x]]
EmptyArray == [rows |-> 0]

\* arr[0, 0]: IndexError when the array has no element
Element00(arr) ==
    IF arr.rows = 0 THEN Raise("IndexError") ELSE Ok(arr.elem)

\* elem.dtype.names: the field names of a struct, None for a number
DtypeNames(elem) ==
    IF "fields" \in DOMAIN elem THEN Ok(DOMAIN elem.fields) ELSE None

\* line 44, second operand: "cycle" not in names raises TypeError when names
\* is None; lines 46-100 follow the test
CheckNames(p, elem, names) ==
    IF names = None THEN Raise("TypeError")
    ELSE IF "cycle" \notin names.val THEN EmptyDF
    ELSE ProcessCycles(BatteryName(p), FieldRow(elem.fields, "cycle"))

\* line 44, mat[main_key][0, 0]: its exception leaves process_battery
CheckMain(p, elem) ==
    IF Raised(elem) THEN elem
    ELSE CheckNames(p, elem.val, DtypeNames(elem.val))

\* lines 44-100: main_key is None or "cycle" not in the field names
ProcessMain(p, m, main_key) ==
    IF main_key = None THEN EmptyDF
    ELSE CheckMain(p, Element00(m.vars[main_key.val]))

\* process_battery(mat_path): [rows |-> the rows of the returned DataFrame],
\* or the exception that leaves the call
process_battery(p, m) == ProcessMain(p, m, MainKey(m))

(***************************************************************************)
(* Inputs of process_battery.                                              *)
(***************************************************************************)
Channels(v, i, t) ==
    [Voltage_measured |-> v, Current_measured |-> i, Temperature_measured |-> t]

Entry(label, d) == [type |-> label, data |-> d]

ChargeA ==
    Entry(<<"charge">>, Channels(Row(<<F01, F02>>), Row(<<F02>>), Row(<<F03>>))
                          @@ [Time |-> Row(<<F01, F07>>)])
ChargeB ==
    Entry(<<"charge">>, Channels(Row(<<F03>>), Row(<<F01>>), Row(<<>>)))
ChargeNoVoltage ==
    Entry(<<"charge">>, [Current_measured |-> Row(<<F02>>),
                         Temperature_measured |-> Row(<<F03>>)])
DischargeA ==
    Entry(<<"discharge">>, Channels(Row(<<F03, F01>>), Row(<<F01>>), Row(<<F02>>))
                             @@ [Time |-> Row(<<F01, F10>>),
                                 Capacity |-> Row(<<F07>>)])
DischargeB ==
    Entry(<<"discharge">>, Channels(Row(<<F02>>), Row(<<F03>>), Row(<<F01>>))
                             @@ [Capacity |-> Row(<<>>)])
DischargeTime00 ==
    Entry(<<"discharge">>, Channels(Row(<<F01>>), Row(<<F02>>), Row(<<F03>>))
                             @@ [Time |-> Empty00, Capacity |-> Row(<<F10>>)])
Impedance ==
    Entry(<<"impedance">>, [Sense_current |-> Row(<<F01>>)])
Unlabelled ==
    Entry(<<>>, Channels(Row(<<F01>>), Row(<<F01>>), Row(<<F01>>)))

Entries == {ChargeA, ChargeB, ChargeNoVoltage, DischargeA, DischargeB,
            DischargeTime00, Impedance, Unlabelled}

StdKeys == <<"__header__", "__version__", "__globals__">>

\* a file whose main structure holds the cycle list
MatOf(cycles) ==
    [keys |-> Append(StdKeys, "B"),
     vars |-> [B |-> StructArray([cycle |-> Row(cycles)])]]

\* files without a usable structure: no non-internal key; a main structure
\* without a cycle field; a cycle field that is the 0x0 array
MatNoKey == [keys |-> StdKeys, vars |-> <<>>]
MatNoCycle ==
    [keys |-> Append(StdKeys, "B"),
     vars |-> [B |-> StructArray([info |-> Row(<<>>)])]]
MatCycle00 ==
    [keys |-> Append(StdKeys, "B"),
     vars |-> [B |-> StructArray([cycle |-> Empty00])]]

\* files whose main variable is no struct: a number; the empty array []
MatNumeric ==
    [keys |-> Append(StdKeys, "B"), vars |-> [B |-> NumericArray(F10)]]
MatEmptyVar ==
    [keys |-> Append(StdKeys, "B"), vars |-> [B |-> EmptyArray]]

\* files saved with a function workspace: loadmat adds the key
\* "__function_workspace__", before the variable or as the only extra key
MatWorkspace ==
    [keys |-> StdKeys \o <<"__function_workspace__", "B">>,
     vars |-> ("__function_workspace__" :> NumericArray(F10))
                @@ [B |-> StructArray([cycle |-> Row(<<ChargeA, DischargeA>>)])]]
MatWorkspaceOnly ==
    [keys |-> Append(StdKeys, "__function_workspace__"),
     vars |-> ("__function_workspace__" :>
                  StructArray([cycle |-> Row(<<ChargeA, DischargeA>>)]))]

\* a file whose variable is named None
MatNamedNone ==
    [keys |-> Append(StdKeys, "None"),
     vars |-> ("None" :> StructArray([cycle |-> Row(<<ChargeA, DischargeA>>)]))]

Mats == {MatOf(c) : c \in SeqsUpTo(Entries, MaxCycles)}
          \cup {MatNoKey, MatNoCycle, MatCycle00, MatNumeric, MatEmptyVar,
                MatWorkspace, MatWorkspaceOnly, MatNamedNone}

PathB1 == [dir |-> "d1", name |-> <<"B1", "mat">>]

PathB1Copy == [dir |-> "d2", name |-> <<"B1", "mat">>]
PathB1Old == [dir |-> "d1", name |-> <<"B1", "old", "mat">>]
PathB2 == [dir |-> "d1", name |-> <<"B2", "mat">>]
PathNotes == [dir |-> "d1", name |-> <<"notes", "txt">>]

(***************************************************************************)
(* extract_stats called on its own.                                        *)
(***************************************************************************)
NotWritten == [written |-> FALSE, rows |-> <<>>]

InitStats ==
    /\ pc = "stats_call"
    /\ data \in Arrays
    /\ prefix \in Prefixes
    /\ features = <<>>
    /\ path = PathB1 /\ mat = MatNoKey /\ df = EmptyDF
    /\ files = <<>> /\ idx = 0 /\ all_dfs = <<>> /\ final_df = <<>>
    /\ labeled = 0 /\ out = NotWritten

ExtractStats ==
    /\ pc = "stats_call"
    /\ features' = extract_stats(data, prefix)
    /\ pc' = "stats_returned"
    /\ UNCHANGED <<data, prefix, path, mat, df, files, idx, all_dfs, final_df,
                   labeled, out>>

NextStats == ExtractStats

SpecStats == InitStats /\ [][NextStats]_vars

(***************************************************************************)
(* process_battery called on one file.                                     *)
(***************************************************************************)
InitFile ==
    /\ pc = "file_call"
    /\ path \in {PathB1, PathB2}
    /\ mat \in Mats
    /\ df = EmptyDF
    /\ data = <<>> /\ prefix = "" /\ features = <<>>
    /\ files = <<>> /\ idx = 0 /\ all_dfs = <<>> /\ final_df = <<>>
    /\ labeled = 0 /\ out = NotWritten

\* df = process_battery(path): the call returns a DataFrame or raises
Call ==
    /\ pc = "file_call"
    /\ df' = process_battery(path, mat)
    /\ pc' = IF Raised(df') THEN "file_raised" ELSE "file_returned"
    /\ UNCHANGED <<data, prefix, features, path, mat, files, idx, all_dfs,
                   final_df, labeled, out>>

NextFile == Call

SpecFile == InitFile /\ [][NextFile]_vars

(***************************************************************************)
(* main: the batch over the files os.walk discovers.                       *)
(***************************************************************************)
\* file.endswith(".mat")
EndsWithMat(p) == Len(p.name) >= 2 /\ p.name[Len(p.name)] = "mat"

\* pd.concat(all_dfs, ignore_index=True): the rows of the frames, in order
RECURSIVE Concat(_)
Concat(dfs) ==
    IF Len(dfs) = 0 THEN <<>>
    ELSE Concat(SubSeq(dfs, 1, Len(dfs) - 1)) \o dfs[Len(dfs)].rows

\* x.max() taken over the whole table instead of the group
GroupMaxBug(rows, b) ==
    CHOOSE m \in {rows[j].cycle : j \in 1..Len(rows)} :
        \A j \in 1..Len(rows) : rows[j].cycle <= m

\* x.max() of the group of rows carrying battery b
GroupMax(rows, b) ==
    CHOOSE m \in {rows[j].cycle : j \in {i \in 1..Len(rows) : rows[i].battery = b}} :
        \A j \in {i \in 1..Len(rows) : rows[i].battery = b} : rows[j].cycle <= m

\* final_df["RUL"] = final_df.groupby("battery")["cycle"]
\*                           .transform(lambda x: x.max() - x)
AddRUL(rows) ==
    [i \in 1..Len(rows) |->
        DictMerge(rows[i],
                  "RUL" :> (GroupMax(rows, rows[i].battery) - rows[i].cycle))]

\* the contents the discovered files can have
MainMats == {MatOf(<<ChargeA, DischargeA>>),
             MatOf(<<ChargeA, Impedance, DischargeB, ChargeB, DischargeA>>),
             MatOf(<<ChargeA, Impedance>>),
             MatOf(<<ChargeNoVoltage, DischargeA>>),
             MatNoKey,
             MatNoCycle,
             MatWorkspaceOnly,
             MatNumeric,
             MatEmptyVar}

File(p, m) == [path |-> p, mat |-> m]

Discoverable == {File(p, m) : p \in {PathB1, PathB1Copy, PathB1Old, PathB2},
                                  m \in MainMats}
                  \cup {File(PathNotes, MatNoKey)}

\* os.walk yields every path once
Walks == {fs \in SeqsUpTo(Discoverable, MaxFiles) :
             \A i, j \in 1..Len(fs) : fs[i].path = fs[j].path => i = j}

Init ==
    /\ pc = "walk"
    /\ files \in Walks
    /\ idx = 0
    /\ all_dfs = <<>>
    /\ final_df = <<>>
    /\ labeled = 0
    /\ out = NotWritten
    /\ path = PathB1 /\ mat = MatNoKey /\ df = EmptyDF
    /\ data = <<>> /\ prefix = "" /\ features = <<>>

\* a discovered file that is no .mat file is passed over
WalkOther ==
    /\ pc = "walk"
    /\ idx < Len(files)
    /\ ~EndsWithMat(files[idx + 1].path)
    /\ idx' = idx + 1
    /\ UNCHANGED <<pc, data, prefix, features, path, mat, df, files, all_dfs,
                   final_df, labeled, out>>

\* df = process_battery(path) returns rows: all_dfs.append(df)
WalkKeep ==
    /\ pc = "walk"
    /\ idx < Len(files)
    /\ EndsWithMat(files[idx + 1].path)
    /\ path' = files[idx + 1].path
    /\ mat' = files[idx + 1].mat
    /\ df' = process_battery(path', mat')
    /\ ~Raised(df')
    /\ df'.rows # <<>>
    /\ all_dfs' = Append(all_dfs, df')
    /\ idx' = idx + 1
    /\ UNCHANGED <<pc, data, prefix, features, files, final_df, labeled, out>>

\* df = process_battery(path) returns an empty DataFrame: nothing is kept
WalkEmpty ==
    /\ pc = "walk"
    /\ idx < Len(files)
    /\ EndsWithMat(files[idx + 1].path)
    /\ path' = files[idx + 1].path
    /\ mat' = files[idx + 1].mat
    /\ df' = process_battery(path', mat')
    /\ ~Raised(df')
    /\ df'.rows = <<>>
    /\ idx' = idx + 1
    /\ UNCHANGED <<pc, data, prefix, features, files, all_dfs, final_df,
                   labeled, out>>

\* process_battery(path) raises: main has no handler, the exception ends it
WalkRaise ==
    /\ pc = "walk"
    /\ idx < Len(files)
    /\ EndsWithMat(files[idx + 1].path)
    /\ path' = files[idx + 1].path
    /\ mat' = files[idx + 1].mat
    /\ df' = process_battery(path', mat')
    /\ Raised(df')
    /\ pc' = "crashed"
    /\ UNCHANGED <<data, prefix, features, files, idx, all_dfs, final_df,
                   labeled, out>>

\* if not all_dfs: return
NoFrames ==
    /\ pc = "walk"
    /\ idx = Len(files)
    /\ all_dfs = <<>>
    /\ pc' = "returned"
    /\ UNCHANGED <<data, prefix, features, path, mat, df, files, idx, all_dfs,
                   final_df, labeled, out>>

\* the concatenation placed inside the loop: it runs before the walk ends
ConcatFramesBug ==
    /\ pc = "walk"
    /\ all_dfs # <<>>
    /\ final_df' = Concat(all_dfs)
    /\ pc' = "label"
    /\ UNCHANGED <<data, prefix, features, path, mat, df, files, idx, all_dfs,
                   labeled, out>>

\* final_df = pd.concat(all_dfs, ignore_index=True)
ConcatFrames ==
    /\ pc = "walk"
    /\ idx = Len(files)
    /\ all_dfs # <<>>
    /\ final_df' = Concat(all_dfs)
    /\ pc' = "label"
    /\ UNCHANGED <<data, prefix, features, path, mat, df, files, idx, all_dfs,
                   labeled, out>>

\* final_df["RUL"] = ...
LabelRUL ==
    /\ pc = "label"
    /\ final_df' = AddRUL(final_df)
    /\ labeled' = labeled + 1
    /\ pc' = "write"
    /\ UNCHANGED <<data, prefix, features, path, mat, df, files, idx, all_dfs,
                   out>>

\* final_df.to_csv(out_path, index=False)
WriteCsv ==
    /\ pc = "write"
    /\ out' = [written |-> TRUE, rows |-> final_df]
    /\ pc' = "done"
    /\ UNCHANGED <<data, prefix, features, path, mat, df, files, idx, all_dfs,
                   final_df, labeled>>

Next ==
    \/ WalkOther \/ WalkKeep \/ WalkEmpty \/ WalkRaise
    \/ NoFrames \/ ConcatFrames \/ LabelRUL \/ WriteCsv

Spec == Init /\ [][Next]_vars

(***************************************************************************)
(* Vocabulary of the claims.                                               *)
(***************************************************************************)
StatKeys(ctype) ==
    {ctype \o "_" \o ch \o "_" \o st : ch \in {"voltage", "current", "temp"},
                                       st \in {"avg", "min", "max"}}

LabelKeys == {"discharge_duration_s", "capacity_Ah"}

PairedColumns ==
    {"battery", "cycle"} \cup StatKeys("charge") \cup StatKeys("discharge")
      \cup LabelKeys

\* the file holds a cycle list (a row of entries)
HasCycleList(m) ==
    /\ MainKey(m) # None
    /\ m.vars[MainKey(m).val].rows = 1
    /\ "fields" \in DOMAIN m.vars[MainKey(m).val].elem
    /\ "cycle" \in DOMAIN m.vars[MainKey(m).val].elem.fields
    /\ m.vars[MainKey(m).val].elem.fields.cycle.rows = 1

CycleList(m) == m.vars[MainKey(m).val].elem.fields.cycle.vals

IsCharge(e) == e.type = <<"charge">>
IsDischarge(e) == e.type = <<"discharge">>
IsJunk(e) == ~IsCharge(e) /\ ~IsDischarge(e)

ChargeEntries(m) == SelectSeq(CycleList(m), IsCharge)
DischargeEntries(m) == SelectSeq(CycleList(m), IsDischarge)

\* min(c, d) of the file
PairCount(m) == Min(Len(ChargeEntries(m)), Len(DischargeEntries(m)))

\* the last element of a channel that is present and non-empty, else NaN
ExpectedLast(d, name) ==
    IF name \in DOMAIN d /\ d[name].rows = 1 /\ Len(d[name].vals) > 0
    THEN d[name].vals[Len(d[name].vals)]
    ELSE NaN

\* the file lacks a non-internal key, or its main variable holds no "cycle"
\* field: a struct without that field, a number, or the empty array
Skipped(m) ==
    \/ \A i \in 1..Len(m.keys) : startswith(m.keys[i], "__")
    \/ m.vars[MainKey(m).val].rows = 0
    \/ "fields" \notin DOMAIN m.vars[MainKey(m).val].elem
    \/ "cycle" \notin DOMAIN m.vars[MainKey(m).val].elem.fields

\* the double k units in the last place above x,
\* for 0 <= k < Limb
StepUp(x, k) ==
    LET sum == LimbAdd(x, [hi |-> 0, lo |-> k])
    IN  IF sum.hi < 2 * MinHi THEN [hi |-> sum.hi, lo |-> sum.lo, e |-> x.e]
        ELSE [hi |-> MinHi, lo |-> sum.lo, e |-> x.e + 1]

\* the double k units in the last place below x,
\* for 0 <= k < Limb
StepDown(x, k) ==
    IF x.lo >= k THEN [hi |-> x.hi, lo |-> x.lo - k, e |-> x.e]
    ELSE IF x.hi > MinHi THEN [hi |-> x.hi - 1, lo |-> x.lo + Limb - k, e |-> x.e]
    ELSE [hi |-> 2 * MinHi - 1, lo |-> Limb - (k - x.lo), e |-> x.e - 1]

Elements(a) == {a[i] : i \in 1..Len(a)}

(***************************************************************************)
(* C6: extract_stats                                                       *)
(***************************************************************************)
\* what C6 says of the keys, of min and max, and of the empty array
C6_Shape ==
    /\ DOMAIN features = {prefix \o "_avg", prefix \o "_min", prefix \o "_max"}
    /\ \A key \in DOMAIN features : ~Raised(features[key])
    /\ Len(data) = 0 => \A key \in DOMAIN features : features[key] = NaN
    /\ Len(data) > 0 =>
         /\ features[prefix \o "_min"] \in Elements(data)
         /\ \A x \in Elements(data) : FLe(features[prefix \o "_min"], x)
         /\ features[prefix \o "_max"] \in Elements(data)
         /\ \A x \in Elements(data) : FLe(x, features[prefix \o "_max"])
         /\ ~IsNaN(features[prefix \o "_avg"])

\* C6 as stated: extract_stats returns exactly the keys prefix_avg, prefix_min
\* and prefix_max, never an exception; on a non-empty array min and max are
\* its least and greatest element and min <= avg <= max; on an empty array
\* all three values are NaN.
C6_Original ==
    pc = "stats_returned" =>
        /\ C6_Shape
        /\ Len(data) > 0 =>
             /\ FLe(features[prefix \o "_min"], features[prefix \o "_avg"])
             /\ FLe(features[prefix \o "_avg"], features[prefix \o "_max"])

\* C6 as amended: the same, except that avg is the rounded float64 mean and
\* lies between min and max only up to rounding: no more than Len(data)
\* units in the last place below min or above max.
C6_StatsUpToRounding ==
    pc = "stats_returned" =>
        /\ C6_Shape
        /\ Len(data) > 0 =>
             /\ FLe(StepDown(features[prefix \o "_min"], Len(data)),
                    features[prefix \o "_avg"])
             /\ FLe(features[prefix \o "_avg"],
                    StepUp(features[prefix \o "_max"], Len(data)))

\* extract_stats has returned for an array whose rounded mean exceeds its
\* maximum
C6_Witness ==
    /\ pc = "stats_returned"
    /\ Len(data) >= 2
    /\ ~FLe(features[prefix \o "_avg"], features[prefix \o "_max"])

(***************************************************************************)
(* C1, C2, C4, C7, C9: process_battery on one file                         *)
(***************************************************************************)
\* C1: for a file whose cycle list holds c charge and d discharge entries,
\* process_battery returns exactly min(c, d) rows, whose cycle values are
\* 1, 2, ..., min(c, d) in output order.
C1_PairCount ==
    (pc # "file_call" /\ HasCycleList(mat)) =>
        /\ ~Raised(df)
        /\ Len(df.rows) = PairCount(mat)
        /\ \A k \in 1..PairCount(mat) : df.rows[k].cycle = k

\* C2: for every k in 1..min(c, d) the output row with cycle k carries the
\* features of the k-th charge entry and of the k-th discharge entry of the
\* file; entries past min(c, d) in their own sequence change no row.
C2_Positional ==
    (pc # "file_call" /\ HasCycleList(mat)) =>
        \A k \in 1..PairCount(mat) :
            /\ ~Raised(df)
            /\ k <= Len(df.rows)
            /\ df.rows[k].cycle = k
            /\ LET fc == EntryFeatures("charge", ChargeEntries(mat)[k].data)
                   fd == EntryFeatures("discharge", DischargeEntries(mat)[k].data)
               IN  /\ ~Raised(fc) => \A key \in DOMAIN fc : df.rows[k][key] = fc[key]
                   /\ ~Raised(fd) => \A key \in DOMAIN fd : df.rows[k][key] = fd[key]

\* C4: a charge or discharge entry whose data lacks a sensor channel or is
\* otherwise malformed does not abort the file: the call returns, and the
\* entry still counts as a row of its sequence.
C4_NoAbort ==
    (/\ pc # "file_call"
     /\ HasCycleList(mat)
     /\ \A i \in 1..Len(CycleList(mat)) : Len(CycleList(mat)[i].type) = 1) =>
        /\ ~Raised(df)
        /\ Len(df.rows) = PairCount(mat)

\* C7: every output row has exactly the 9 charge statistics, the 9 discharge
\* statistics, discharge_duration_s and capacity_Ah beside battery and cycle;
\* discharge_duration_s is the last element of the Time channel of the paired
\* discharge entry when that channel is present and non-empty, NaN otherwise;
\* capacity_Ah likewise for Capacity; a charge entry yields neither key.
C7_RowShape ==
    pc = "file_returned" =>
        /\ \A k \in 1..Len(df.rows) :
              /\ DOMAIN df.rows[k] = PairedColumns
              /\ df.rows[k].discharge_duration_s =
                    ExpectedLast(DischargeEntries(mat)[k].data, "Time")
              /\ df.rows[k].capacity_Ah =
                    ExpectedLast(DischargeEntries(mat)[k].data, "Capacity")
        /\ Len(df.rows) > 0 =>
              \A i \in 1..Len(ChargeEntries(mat)) :
                  DOMAIN EntryFeatures("charge", ChargeEntries(mat)[i].data)
                    = StatKeys("charge")

\* two rows were returned: one whose discharge entry has a Time and a
\* Capacity value, one whose discharge entry has neither
C7_Witness ==
    /\ pc = "file_returned"
    /\ Len(df.rows) = 2
    /\ ~IsNaN(df.rows[1].discharge_duration_s)
    /\ ~IsNaN(df.rows[1].capacity_Ah)
    /\ IsNaN(df.rows[2].discharge_duration_s)
    /\ IsNaN(df.rows[2].capacity_Ah)
    /\ "Time" \in DOMAIN ChargeEntries(mat)[2].data

\* C9: removing the entries whose type is neither "charge" nor "discharge"
\* from the cycle list, the charge and discharge entries keeping their
\* order, does not change what process_battery produces.
C9_JunkInvariant ==
    (pc # "file_call" /\ HasCycleList(mat)) =>
        df = process_battery(path,
                             MatOf(SelectSeq(CycleList(mat),
                                             LAMBDA e : ~IsJunk(e))))

(***************************************************************************)
(* C3, C5, C8, C10: main                                                   *)
(***************************************************************************)
SameBattery(rows, i) == {j \in 1..Len(rows) : rows[j].battery = rows[i].battery}

\* a row without its RUL column
WithoutRUL(row) == [key \in DOMAIN row \ {"RUL"} |-> row[key]]

\* C3: in the final table every row's RUL is the greatest cycle among the
\* rows of the same battery minus the row's own cycle; so RUL is a natural
\* number and a row holding the greatest cycle of its battery has RUL 0.
C3_RUL ==
    labeled >= 1 =>
        \A i \in 1..Len(final_df) :
            /\ "RUL" \in DOMAIN final_df[i]
            /\ final_df[i].RUL \in Nat
            /\ \E j \in SameBattery(final_df, i) :
                   final_df[j].cycle = final_df[i].cycle + final_df[i].RUL
            /\ \A j \in SameBattery(final_df, i) :
                   final_df[j].cycle <= final_df[i].cycle + final_df[i].RUL
            /\ (\A j \in SameBattery(final_df, i) :
                   final_df[j].cycle <= final_df[i].cycle) => final_df[i].RUL = 0

\* the table was written with two batteries of different length in it, and
\* a row with RUL above 0
C3_Witness ==
    /\ pc = "done"
    /\ \E i, j \in 1..Len(out.rows) :
          /\ out.rows[i].battery # out.rows[j].battery
          /\ out.rows[i].RUL = 1
          /\ out.rows[i].cycle = 1
          /\ out.rows[j].RUL = 0
          /\ out.rows[j].cycle = 1

\* what all_dfs holds after the files fs when the skipped files are left out
RECURSIVE FramesOfUnskipped(_)
FramesOfUnskipped(fs) ==
    IF Len(fs) = 0 THEN <<>>
    ELSE LET f == fs[Len(fs)]
             before == FramesOfUnskipped(SubSeq(fs, 1, Len(fs) - 1))
             r == process_battery(f.path, f.mat)
         IN  IF ~EndsWithMat(f.path) \/ Skipped(f.mat) THEN before
             ELSE IF Raised(r) \/ r.rows = <<>> THEN before
             ELSE Append(before, r)

\* C5: a file without a non-internal key, or whose main structure has no
\* cycle field, is skipped: process_battery returns an empty table for it,
\* no exception of it reaches the batch loop, the loop goes on to the next
\* file, and the rows of the other files reach the output as if the skipped
\* file were not there.
C5_SkippedFile ==
    /\ (pc = "crashed" => ~Skipped(mat))
    /\ (idx >= 1 /\ EndsWithMat(files[idx].path) /\ Skipped(files[idx].mat)
          /\ pc = "walk") => df = EmptyDF
    /\ all_dfs = FramesOfUnskipped(SubSeq(files, 1, idx))
    /\ pc \in {"label", "write", "done", "returned"} => idx = Len(files)
    /\ pc = "done" =>
          /\ Len(out.rows) = Len(Concat(all_dfs))
          /\ \A i \in 1..Len(out.rows) :
                WithoutRUL(out.rows[i]) = Concat(all_dfs)[i]

\* the cycle values of the rows of battery b, in row order
CyclesOf(rows, b) ==
    LET sel == SelectSeq(rows, LAMBDA r : r.battery = b)
    IN  [k \in 1..Len(sel) |-> sel[k].cycle]

\* C8: in the final table, for every battery name, the cycle values of the
\* rows carrying that name are 1, 2, ..., k in row order, each once.
C8_CyclesPerBattery ==
    pc = "done" =>
        \A i \in 1..Len(out.rows) :
            LET cyc == CyclesOf(out.rows, out.rows[i].battery)
            IN  cyc = [k \in 1..Len(cyc) |-> k]

\* C10: the RUL column is assigned at most once, and only when every
\* discovered file has been handled and the frames were concatenated; the
\* output is written only after that, and holds the labelled table; a run in
\* which no file contributed a row ends without labelling and without output.
C10_Order ==
    /\ labeled <= 1
    /\ labeled = 1 =>
          /\ idx = Len(files)
          /\ pc \in {"write", "done"}
          /\ Len(final_df) = Len(Concat(all_dfs))
          /\ \A i \in 1..Len(final_df) :
                WithoutRUL(final_df[i]) = Concat(all_dfs)[i]
    /\ out.written =>
          /\ labeled = 1
          /\ pc = "done"
          /\ out.rows = final_df
          /\ \A i \in 1..Len(out.rows) : "RUL" \in DOMAIN out.rows[i]
    /\ (idx = Len(files) /\ all_dfs = <<>>) =>
          /\ pc \in {"walk", "returned"}
          /\ labeled = 0
          /\ ~out.written
    /\ pc = "returned" => (idx = Len(files) /\ all_dfs = <<>>)
    /\ pc = "done" => out.written

\* the table of a walk over two files was labelled and written
C10_Witness ==
    /\ pc = "done"
    /\ Len(files) = 2
    /\ Len(all_dfs) = 2
    /\ labeled = 1
    /\ out.written

====
